---- MODULE Spec2Model ----
(***************************************************************************)
(* A state-machine model of MathPreview                                    *)
(* (src/src/providers/preview/mathpreview.ts): the coordinator of the      *)
(* hover previews of LaTeX-Workshop.                                       *)
(*                                                                         *)
(* A "request" is one run of a hover flow:                                 *)
(*   tex    : findHoverOnTex, findProjectNewCommand, provideHoverOnTex     *)
(*   svg    : findMathEnvIncludingPosition, generateSVG                    *)
(*   ref    : provideHoverOnRef                                            *)
(*   svgref : findHoverOnRef, renderSvgOnRef                               *)
(* JavaScript runs one callback at a time: every action below is the code  *)
(* that runs between two suspension points (await) of one request, or one  *)
(* event handler.                                                          *)
(*                                                                         *)
(* Strings are sequences of string tokens; "+" is \o and '' is <<>>.       *)
(* An optional value (T | undefined) is None or Some(v).                   *)
(*                                                                         *)
(* MathJaxPool, NewCommandFinder, CursorRenderer, MathPreviewUtils,        *)
(* HoverPreviewOnRefProvider and utils/theme are not part of the source    *)
(* under study; they are modelled from the design document (sections 4.2   *)
(* to 4.6).                                                                *)
(***************************************************************************)
EXTENDS Integers, Sequences, FiniteSets, TLC

VARIABLES
    theme,      \* what getCurrentThemeLightness() returns now
    color,      \* MathPreview.color
    req,        \* the hover requests, by id
    queue       \* per engine pool: the typeset requests waiting for an instance

vars == <<theme, color, req, queue>>

----------------------------------------------------------------------------
(* Bounds of the model *)

\* how many hover requests are followed
MaxReq == 2
\* engine instances of a pool
PoolSize == 1

Ids == 1..MaxReq

----------------------------------------------------------------------------
(* Values *)

None == {}
Some(v) == {v}
Val(o) == CHOOSE v \in o : TRUE

Themes == {"light", "dark"}
Colors == {"#000000", "#ffffff"}

\* the math environments the locators can return
TexEnvs == { [texString |-> <<"$", "x", "$">>, envname |-> "$"] }
\* what a caller may pass as newCommandsArg
MacroStrings == { <<>>, <<"def-a">> }
\* what a macro scan may find in the project
Preambles == { <<"newcommand-b">> }
\* hover.preview.scale
Scales == {1}
\* the diagnostics of the typesetting engine
EngineErrors == {"TeX parse error"}
\* ReferenceEntry.documentation
Documentation == <<"E=mc^2">>
\* ReferenceEntry.prevIndex of a reference compiled before
PrevIndex == Some([refNumber |-> "3", pageNumber |-> "1"])
\* the reference entries hovered on, each with what the locator finds for it
RefTargets ==
    { [refData |-> [prevIndex |-> None, documentation |-> Documentation], found |-> None],
      [refData |-> [prevIndex |-> PrevIndex, documentation |-> Documentation], found |-> None] }
    \cup
    { [refData |-> [prevIndex |-> PrevIndex, documentation |-> Documentation], found |-> Some(e)]
        : e \in TexEnvs }

Pools == {"mj", "mj2"}

----------------------------------------------------------------------------
(* Collaborators of MathPreview *)

\* CursorRenderer.renderCursor: the math source with a marker of the given
\* colour inserted (design 4.3)
renderCursor(texString, c) ==
    <<Head(texString)>> \o <<"cursor{", c, "}">> \o Tail(texString)

\* MathPreviewUtils.mathjaxify and stripTeX: string functions about which
\* nothing is known but their arguments
mathjaxify(s, envname) == <<"mathjaxify(">> \o s \o <<",", envname, ")">>

stripTeX(s) == <<"stripTeX(">> \o s \o <<")">>

\* utils.svgToDataUrl
svgToDataUrl(xml) == [dataUrlOf |-> xml]

\* MathJaxPool.typeset's result: the image of the source in the options'
\* colour and scale (design 4.4: no caching, the result is the request's)
Typeset(arg, opts) == [src |-> arg, color |-> opts.color, scale |-> opts.scale]

----------------------------------------------------------------------------
(* MathPreview *)

\* private color: string = '#000000'
InitialColor == "#000000"

\* getColor(): the colour it assigns to this.color
getColor(lightness) ==
    IF lightness = "light" THEN "#000000" ELSE "#ffffff"

RefPoolOwn == "mj2"

\* constructor: the pool handed to HoverPreviewOnRefProvider is this.mj
RefPool == "mj"

\* the pool provideHoverOnTex and generateSVG use: this.mj
TexPool == "mj"

TypesetOptsBlack(scale, c) == [scale |-> scale, color |-> "#000000"]

\* const typesetOpts = { scale, color: this.color }
TypesetOpts(scale, c) == [scale |-> scale, color |-> c]

refNumberMessageAlways(refData) ==
    Some(<<"numbered ",
           IF refData.prevIndex = None THEN "undefined"
                                       ELSE Val(refData.prevIndex).refNumber,
           " at last compilation">>)

\* refNumberMessage(refData)
refNumberMessage(refData) ==
    IF refData.prevIndex # None
    THEN Some(<<"numbered ", Val(refData.prevIndex).refNumber,
                " at last compilation">>)
    ELSE None

\* the parts of a vscode.Hover's contents
Part(kind, text) == [part |-> kind, text |-> text]

MdOf(refData) == Part("md", <<"latex-code-block-open">> \o refData.documentation \o <<"code-block-close">>)

MdLink == Part("link", <<"[View on pdf](command:latex-workshop.synctexto)">>)

\* provideHoverOnRef, lines 81 to 87: the plain-reference hover
PlainHover(refData, numberEnabled) ==
    LET msg == refNumberMessage(refData) IN
    IF msg # None /\ numberEnabled
    THEN [kind |-> "plain", contents |-> <<MdOf(refData), Part("note", Val(msg)), MdLink>>]
    ELSE [kind |-> "plain", contents |-> <<MdOf(refData), MdLink>>]

LocatesOnRefAlways(enabled) == TRUE

\* provideHoverOnRef, lines 74 and 75: texMathEnvFinder.findHoverOnRef is
\* called inside the if on hover.ref.enabled
LocatesOnRef(enabled) == enabled

WantsPreviewNoTexCheck(enabled, tex) == enabled

\* provideHoverOnRef, lines 74 to 76: whether the preview path is taken
WantsPreview(enabled, tex) == enabled /\ tex # None

NeedsScanFalsy(arg) == arg = None \/ Val(arg) = <<>>

\* generateSVG: newCommandsArg ?? await findProjectNewCommand()
NeedsScan(arg) == arg = None

AfterScanSwallow(res) == "continue"

\* await findProjectNewCommand(...): a rejection is thrown to the caller, no
\* try/catch surrounds it
AfterScan(res) == IF res.rejected THEN "throw" ELSE "continue"

ProvideHoverOnTexStepsSwapped == <<"typeset.start", "annotate">>

\* provideHoverOnTex: renderCursor (line 47) and then mj.typeset (line 52)
ProvideHoverOnTexSteps == <<"annotate", "typeset.start">>

OnTypesetRejectedSwallow(e, typesetArg) ==
    [outcome |-> [kind |-> "none"], log |-> <<>>]

\* provideHoverOnTex, the catch block: log twice and rethrow e
OnTypesetRejected(e, typesetArg) ==
    [outcome |-> [kind |-> "error", error |-> e],
     log |-> << [fn |-> "logOnRejected", arg |-> <<e>>],
                [fn |-> "addLogMessage",
                 arg |-> <<"Error when MathJax is rendering ">> \o typesetArg] >>]

ColorOnRefInitial(current) == InitialColor

\* lines 78 and 136: the colour argument of the reference provider is
\* this.color, evaluated when the await of findProjectNewCommand has returned
ColorOnRef(current) == current

HoverRefreshesColor == color' = getColor(theme)

\* the hover entry points and their continuations (lines 40 to 106 and 117 to
\* 141) read this.color and never assign it
HoverKeepsColor == color' = color

----------------------------------------------------------------------------
(* The requests *)

\* region: the math region that exists at the target of the reference hovered
\* on, whether the call looks for it or not
NewReq ==
    [kind |-> "none", pc |-> "new", cancelled |-> FALSE, token |-> FALSE,
     tex |-> None, override |-> None, region |-> None,
     refData |-> [prevIndex |-> None, documentation |-> Documentation],
     refEnabled |-> FALSE, numberEnabled |-> FALSE, scale |-> 0,
     scanCalls |-> 0, scanResult |-> None, newCommands |-> <<>>,
     pool |-> "mj", cursorColor |-> None,
     typesetArg |-> <<>>, typesetOpts |-> None,
     engineCalls |-> 0, engineError |-> None,
     trace |-> <<>>, log |-> <<>>, outcome |-> [kind |-> "pending"]]

Init ==
    /\ theme \in Themes
    /\ color = InitialColor
    /\ req = [r \in Ids |-> NewReq]
    /\ queue = [p \in Pools |-> <<>>]

\* requests are started in the order of their ids
CanStart(r) ==
    /\ req[r].pc = "new"
    /\ req[r].kind = "none"
    /\ \A o \in Ids : o < r => req[o].kind # "none"

Running(p) == {r \in Ids : req[r].pc = "running" /\ req[r].pool = p}

\* what the request record becomes when its caller's locator has answered
Located(rq, kind, tex) ==
    IF tex = None
    THEN [rq EXCEPT !.kind = kind, !.pc = "done", !.trace = <<"locate">>,
                    !.outcome = [kind |-> "none"]]
    ELSE [rq EXCEPT !.kind = kind, !.pc = "located", !.tex = tex,
                    !.trace = <<"locate">>]

\* findProjectNewCommand(ctoken?) is called and the caller awaits it
ScanStarted(rq, withToken) ==
    [rq EXCEPT !.pc = "scan", !.token = withToken, !.scanCalls = @ + 1,
               !.trace = @ \o <<"preamble.start">>]

\* this.mj.typeset(typesetArg, typesetOpts) is called and awaited: the record
\* of the request once queued in pool p
Submitted(rq, p, scale, newCommands, source, c, steps) ==
    [rq EXCEPT !.pc = "queued", !.pool = p, !.newCommands = newCommands,
               !.typesetArg = newCommands \o stripTeX(mathjaxify(source, Val(rq.tex).envname)),
               !.scale = scale,
               !.typesetOpts = Some(TypesetOpts(scale, c)),
               !.trace = @ \o steps]

provideHoverOnTexCursorInitial(rq, newCommand, scale) ==
    LET s == renderCursor(Val(rq.tex).texString, InitialColor) IN
    Submitted([rq EXCEPT !.cursorColor = Some(InitialColor)],
              TexPool, scale, newCommand, s, color, ProvideHoverOnTexSteps)

\* provideHoverOnTex(document, tex, newCommand), up to its await
provideHoverOnTex(rq, newCommand, scale) ==
    LET s == renderCursor(Val(rq.tex).texString, color) IN
    Submitted([rq EXCEPT !.cursorColor = Some(color)],
              TexPool, scale, newCommand, s, color, ProvideHoverOnTexSteps)

\* generateSVG(tex, newCommandsArg), lines 101 to 104, up to the await of typeset
generateSVGTypeset(rq, newCommands, scale) ==
    Submitted(rq, TexPool, scale, newCommands, Val(rq.tex).texString, color,
              <<"typeset.start">>)

\* HoverPreviewOnRefProvider.provideHoverPreviewOnRef / renderSvgOnRef
\* (tex, newCommand, refData, color): no cursor, typeset in the colour given
\* (design 4.5)
previewOnRef(rq, newCommands, c, scale) ==
    Submitted(rq, RefPool, scale, newCommands, Val(rq.tex).texString, c,
              <<"typeset.start">>)

\* the macro scan of a request that was cancelled is abandoned (design 4.2, 5)
ScanResult(rq, p) ==
    IF rq.token /\ rq.cancelled
    THEN [rejected |-> TRUE, value |-> <<>>]
    ELSE [rejected |-> FALSE, value |-> p]

Thrown(rq, outcome) == [rq EXCEPT !.pc = "done", !.outcome = outcome]

----------------------------------------------------------------------------
(* Actions *)

\* vscode.workspace.onDidChangeConfiguration(() => this.getColor()): the
\* configuration (the theme in it) changes and the handler runs
onDidChangeConfiguration(t) ==
    /\ theme' = t
    /\ color' = getColor(t)
    /\ UNCHANGED <<req, queue>>

\* findHoverOnTex(document, position), called by the hover provider
findHoverOnTex(r) ==
    /\ CanStart(r)
    /\ \E tex \in {None} \cup {Some(e) : e \in TexEnvs} :
         req' = [req EXCEPT ![r] = Located(@, "tex", tex)]
    /\ HoverKeepsColor
    /\ UNCHANGED <<theme, queue>>

\* findProjectNewCommand(ctoken), called by the hover provider before
\* provideHoverOnTex, whose argument newCommand it computes
findProjectNewCommand(r) ==
    /\ req[r].kind = "tex"
    /\ req[r].pc = "located"
    /\ req' = [req EXCEPT ![r] = ScanStarted(@, TRUE)]
    /\ HoverKeepsColor
    /\ UNCHANGED <<theme, queue>>

\* findMathEnvIncludingPosition(document, position), called before generateSVG
findMathEnvIncludingPosition(r) ==
    /\ CanStart(r)
    /\ \E tex \in {None} \cup {Some(e) : e \in TexEnvs} :
         req' = [req EXCEPT ![r] = Located(@, "svg", tex)]
    /\ HoverKeepsColor
    /\ UNCHANGED <<theme, queue>>

\* generateSVG(tex, newCommandsArg?), up to its first await
generateSVG(r) ==
    /\ req[r].kind = "svg"
    /\ req[r].pc = "located"
    /\ \E arg \in {None} \cup {Some(m) : m \in MacroStrings}, scale \in Scales :
         LET rq == [req[r] EXCEPT !.override = arg] IN
         IF NeedsScan(arg)
         THEN /\ req' = [req EXCEPT ![r] = ScanStarted(rq, FALSE)]
              /\ UNCHANGED queue
         ELSE /\ req' = [req EXCEPT ![r] = generateSVGTypeset(rq, Val(arg), scale)]
              /\ queue' = [queue EXCEPT ![TexPool] = Append(@, r)]
    /\ HoverKeepsColor
    /\ UNCHANGED theme

\* provideHoverOnRef(document, position, refData, token, ctoken), up to its
\* await or, on the plain path, to its return
provideHoverOnRef(r) ==
    /\ CanStart(r)
    /\ \E t \in RefTargets, enabled \in BOOLEAN, numberEnabled \in BOOLEAN :
         LET refData == t.refData
             found == t.found
             rq == [req[r] EXCEPT !.kind = "ref", !.refData = refData,
                                  !.refEnabled = enabled,
                                  !.region = found,
                                  !.tex = IF LocatesOnRef(enabled) THEN found ELSE None,
                                  !.trace = IF LocatesOnRef(enabled) THEN <<"locate">> ELSE <<>>]
         IN
         IF WantsPreview(enabled, found)
         THEN \* hover.ref.number.enabled is not read on this path
              /\ ~numberEnabled
              /\ req' = [req EXCEPT ![r] = ScanStarted(rq, TRUE)]
         ELSE req' = [req EXCEPT ![r] =
                        [rq EXCEPT !.pc = "done",
                                   !.numberEnabled = numberEnabled,
                                   !.outcome = PlainHover(refData, numberEnabled)]]
    /\ HoverKeepsColor
    /\ UNCHANGED <<theme, queue>>

\* findHoverOnRef(refData, token), called before renderSvgOnRef
findHoverOnRef(r) ==
    /\ CanStart(r)
    /\ \E t \in {x \in RefTargets : x.refData.prevIndex # None} :
         req' = [req EXCEPT ![r] = Located([@ EXCEPT !.refData = t.refData], "svgref", t.found)]
    /\ HoverKeepsColor
    /\ UNCHANGED <<theme, queue>>

\* renderSvgOnRef(tex, refData, ctoken), up to its await
renderSvgOnRef(r) ==
    /\ req[r].kind = "svgref"
    /\ req[r].pc = "located"
    /\ req' = [req EXCEPT ![r] = ScanStarted(@, TRUE)]
    /\ HoverKeepsColor
    /\ UNCHANGED <<theme, queue>>

\* the caller's cancellation signal (ctoken) fires while the request is
\* suspended; generateSVG and its callers have no such signal
Cancel(r) ==
    /\ req[r].kind \in {"tex", "ref", "svgref"}
    /\ req[r].pc \in {"scan", "queued", "running"}
    /\ ~req[r].cancelled
    /\ req' = [req EXCEPT ![r].cancelled = TRUE]
    /\ UNCHANGED <<theme, color, queue>>

\* the promise of findProjectNewCommand settles and the awaiting code goes on
ScanComplete(r) ==
    /\ req[r].pc = "scan"
    /\ \E p \in Preambles, scale \in Scales :
         LET res == ScanResult(req[r], p)
             rq == [req[r] EXCEPT !.scanResult = Some(res),
                                  !.trace = @ \o <<"preamble.end">>]
             k == rq.kind
         IN
         IF (IF k = "tex" THEN res.rejected ELSE AfterScan(res) = "throw")
         THEN /\ req' = [req EXCEPT ![r] = Thrown(rq, [kind |-> "cancelled"])]
              /\ UNCHANGED queue
         ELSE /\ req' = [req EXCEPT ![r] =
                    CASE k = "tex" -> provideHoverOnTex(rq, res.value, scale)
                      [] k = "svg" -> generateSVGTypeset(rq, res.value, scale)
                      [] OTHER -> previewOnRef(rq, res.value, ColorOnRef(color), scale)]
              /\ queue' = [queue EXCEPT ![IF k \in {"tex", "svg"} THEN TexPool ELSE RefPool]
                              = Append(@, r)]
    /\ HoverKeepsColor
    /\ UNCHANGED theme

\* MathJaxPool: the oldest waiting request gets a free engine instance
Dispatch(r) ==
    /\ req[r].pc = "queued"
    /\ LET p == req[r].pool IN
         /\ queue[p] # <<>>
         /\ Head(queue[p]) = r
         /\ Cardinality(Running(p)) < PoolSize
         /\ queue' = [queue EXCEPT ![p] = Tail(@)]
    /\ req' = [req EXCEPT ![r].pc = "running", ![r].engineCalls = @ + 1]
    /\ UNCHANGED <<theme, color>>

\* what the awaiting code makes of the settled typeset promise
OnTypesetSettled(rq, v) ==
    LET xml == Typeset(rq.typesetArg, Val(rq.typesetOpts))
        done == [rq EXCEPT !.pc = "done", !.trace = @ \o <<"typeset.end">>,
                           !.engineError = IF v = "ok" THEN None ELSE Some(v)]
    IN
    CASE rq.kind = "tex" ->
           IF v = "ok"
           THEN [done EXCEPT !.outcome = [kind |-> "hover", image |-> svgToDataUrl(xml)]]
           ELSE LET c == OnTypesetRejected(v, rq.typesetArg) IN
                [done EXCEPT !.outcome = c.outcome, !.log = @ \o c.log]
      [] rq.kind = "svg" ->
           IF v = "ok"
           THEN [done EXCEPT !.outcome = [kind |-> "svg", svgDataUrl |-> svgToDataUrl(xml),
                                          newCommands |-> rq.newCommands]]
           ELSE [done EXCEPT !.outcome = [kind |-> "error", error |-> v]]
      [] rq.kind = "ref" ->
           IF v = "ok"
           THEN [done EXCEPT !.outcome = [kind |-> "hover", image |-> svgToDataUrl(xml)]]
           ELSE [done EXCEPT !.outcome = [kind |-> "error", error |-> v]]
      [] OTHER ->
           IF v = "ok"
           THEN [done EXCEPT !.outcome = [kind |-> "svg", svgDataUrl |-> svgToDataUrl(xml)]]
           ELSE [done EXCEPT !.outcome = [kind |-> "error", error |-> v]]

\* the engine instance finishes: the typeset promise resolves with the image
\* or rejects with the engine's diagnostic
EngineComplete(r) ==
    /\ req[r].pc = "running"
    /\ \E v \in {"ok"} \cup EngineErrors :
         req' = [req EXCEPT ![r] = OnTypesetSettled(@, v)]
    /\ HoverKeepsColor
    /\ UNCHANGED <<theme, queue>>

Next ==
    \/ \E t \in Themes : onDidChangeConfiguration(t)
    \/ \E r \in Ids : findHoverOnTex(r)
    \/ \E r \in Ids : findProjectNewCommand(r)
    \/ \E r \in Ids : findMathEnvIncludingPosition(r)
    \/ \E r \in Ids : generateSVG(r)
    \/ \E r \in Ids : provideHoverOnRef(r)
    \/ \E r \in Ids : findHoverOnRef(r)
    \/ \E r \in Ids : renderSvgOnRef(r)
    \/ \E r \in Ids : Cancel(r)
    \/ \E r \in Ids : ScanComplete(r)
    \/ \E r \in Ids : Dispatch(r)
    \/ \E r \in Ids : EngineComplete(r)

Spec == Init /\ [][Next]_vars

\* the math hover and the reference hover with the pool they share, the
\* theme left as it is
PoolNext ==
    \/ \E r \in Ids : findHoverOnTex(r)
    \/ \E r \in Ids : findProjectNewCommand(r)
    \/ \E r \in Ids : provideHoverOnRef(r)
    \/ \E r \in Ids : Cancel(r)
    \/ \E r \in Ids : ScanComplete(r)
    \/ \E r \in Ids : Dispatch(r)
    \/ \E r \in Ids : EngineComplete(r)

\* every ready callback of the event loop runs, and an engine instance ends
\* each job it is given
FairSpec ==
    /\ Init
    /\ [][PoolNext]_vars
    /\ \A r \in Ids : WF_vars(ScanComplete(r))
    /\ \A r \in Ids : WF_vars(Dispatch(r))
    /\ \A r \in Ids : WF_vars(EngineComplete(r))

----------------------------------------------------------------------------
(* Vocabulary of the properties *)

RenderKinds == {"hover", "svg"}

RefKinds == {"ref", "svgref"}

\* the foreground colour that suits a theme
ExpectedColor(t) == IF t = "dark" THEN "#ffffff" ELSE "#000000"

\* the macro scan of request r ended Cancelled
ScanRejected(r) == req[r].scanResult # None /\ Val(req[r].scanResult).rejected

\* the typeset of request r has been handed to a pool
IsSubmitted(r) == req[r].typesetOpts # None

InQueue(r) == \E p \in Pools : \E i \in 1..Len(queue[p]) : queue[p][i] = r

\* the colour of the image a delivered render result holds
ImageColor(outcome) ==
    IF outcome.kind = "hover" THEN outcome.image.dataUrlOf.color
                              ELSE outcome.svgDataUrl.dataUrlOf.color

IsPrefix(s, t) == Len(s) <= Len(t) /\ \A i \in 1..Len(s) : s[i] = t[i]

\* wherever steps a and b both occur in the trace, a comes first
Before(trace, a, b) ==
    \A i, j \in 1..Len(trace) : (trace[i] = a /\ trace[j] = b) => i < j

\* math source as generateSVG and the reference flow hand it to the engine
Processed(tex) == stripTeX(mathjaxify(tex.texString, tex.envname))

NoteParts(contents) == {i \in 1..Len(contents) : contents[i].part = "note"}

----------------------------------------------------------------------------
(* C1 *)

----------------------------------------------------------------------------
(* C2 *)

----------------------------------------------------------------------------
(* C3 *)

\* C3: math hovers and reference hovers share one pool: the requests
\* executing on engine instances never outnumber the configured instances,
\* and every request handed to the pool eventually completes, with a result
\* or with the engine's error.
C3_PoolBoundAndCompletion ==
    /\ [](Cardinality({r \in Ids : req[r].pc = "running"}) <= PoolSize)
    /\ \A r \in Ids :
          (req[r].pc \in {"queued", "running"})
              ~> (req[r].pc = "done" /\ req[r].outcome.kind \in RenderKinds \cup {"error"})

C3_Witness ==
    \E r, o \in Ids :
        /\ req[r].kind = "tex" /\ req[o].kind = "ref"
        /\ {req[r].pc, req[o].pc} = {"queued", "running"}
        /\ Cardinality({x \in Ids : req[x].pc = "running"}) = PoolSize

----------------------------------------------------------------------------
(* C4 *)

\* C4: a request is typeset with the colour that this.color held when its
\* typeset was submitted: the options take the colour of that moment, nothing
\* changes them afterwards (a theme change included), the image delivered has
\* their colour, and a theme change sets the colour of the new theme for the
\* requests submitted after it.
C4_ColorCapturedAtSubmission ==
    /\ [](\A r \in Ids :
            req[r].outcome.kind \in RenderKinds
                => ImageColor(req[r].outcome) = Val(req[r].typesetOpts).color)
    /\ [][\A r \in Ids :
            /\ (~IsSubmitted(r) /\ req'[r].typesetOpts # None)
                  => Val(req'[r].typesetOpts).color = color'
            /\ IsSubmitted(r) => req'[r].typesetOpts = req[r].typesetOpts]_vars
    /\ [][theme' # theme => color' = ExpectedColor(theme')]_vars

C4_Witness ==
    \E r, o \in Ids :
        /\ req[r].outcome.kind \in RenderKinds
        /\ ImageColor(req[r].outcome) = "#000000"
        /\ theme = "dark" /\ color = "#ffffff"
        /\ req[o].pc = "queued"
        /\ Val(req[o].typesetOpts).color = "#ffffff"

----------------------------------------------------------------------------
(* C5 *)

\* C5 as stated: the tracked colour is always one of the two foreground
\* colours and at every read is the one that suits the current theme, before
\* the first theme-change notification too.
C5_ColorMatchesTheme ==
    /\ color \in Colors
    /\ color = ExpectedColor(theme)

----------------------------------------------------------------------------
(* C6 *)

\* C6: a provideHoverOnRef call whose locator finds no math region returns the
\* plain-reference hover (documentation and link) without raising, and
\* invokes neither the macro scanner nor the pool.
C6_NoRegionGivesPlainHover ==
    \A r \in Ids :
        (req[r].kind = "ref" /\ req[r].refEnabled /\ req[r].tex = None) =>
            /\ req[r].pc = "done"
            /\ req[r].outcome.kind = "plain"
            /\ req[r].outcome.contents[1] = MdOf(req[r].refData)
            /\ req[r].outcome.contents[Len(req[r].outcome.contents)] = MdLink
            /\ req[r].scanCalls = 0
            /\ req[r].engineCalls = 0
            /\ ~IsSubmitted(r)
            /\ req[r].trace = <<"locate">>

C6_Witness ==
    \E r \in Ids :
        /\ req[r].kind = "ref"
        /\ req[r].refEnabled
        /\ req[r].trace = <<"locate">>
        /\ req[r].tex = None
        /\ req[r].outcome.kind = "plain"

----------------------------------------------------------------------------
(* C7 *)

\* C7: when the engine rejects the typeset of a provideHoverOnTex call, the
\* call fails with the engine's error unchanged, after logging it and the
\* source that failed; the failure is never turned into a hover or into "no
\* preview", and the step leaves the colour, the pool's queue and every other
\* request as they were.
C7_EngineErrorSurfaces ==
    /\ [](\A r \in Ids :
            (req[r].kind = "tex" /\ req[r].engineError # None) =>
                /\ req[r].outcome = [kind |-> "error", error |-> Val(req[r].engineError)]
                /\ req[r].log =
                     << [fn |-> "logOnRejected", arg |-> <<Val(req[r].engineError)>>],
                        [fn |-> "addLogMessage",
                         arg |-> <<"Error when MathJax is rendering ">> \o req[r].typesetArg] >>)
    /\ [][\A r \in Ids :
            (req[r].kind = "tex" /\ req[r].engineError = None /\ req'[r].engineError # None) =>
                /\ color' = color
                /\ theme' = theme
                /\ queue' = queue
                /\ \A o \in Ids \ {r} : req'[o] = req[o]]_vars

C7_Witness ==
    \E r, o \in Ids :
        /\ req[r].kind = "tex"
        /\ req[r].engineError # None
        /\ req[r].outcome.kind = "error"
        /\ req[o].engineCalls = 1
        /\ req[o].outcome.kind \in RenderKinds

----------------------------------------------------------------------------
(* C8 *)

\* C8 as stated, for the math hover: the cursor annotation comes before the
\* macro-preamble fetch, which comes before the typeset.
C8_Original ==
    \A r \in Ids :
        req[r].kind \in {"tex", "svg"} =>
            /\ Before(req[r].trace, "locate", "annotate")
            /\ Before(req[r].trace, "annotate", "preamble.start")
            /\ Before(req[r].trace, "preamble.end", "typeset.start")

\* the steps of a whole run of each flow, in the order of the code
StepsOf(rq) ==
    CASE rq.kind = "tex" ->
           <<"locate", "preamble.start", "preamble.end", "annotate",
             "typeset.start", "typeset.end">>
      [] rq.kind = "svg" /\ rq.override # None ->
           <<"locate", "typeset.start", "typeset.end">>
      [] rq.kind = "none" -> <<>>
      [] OTHER ->
           <<"locate", "preamble.start", "preamble.end",
             "typeset.start", "typeset.end">>

\* C8 as amended: in the math hover the macro preamble is fetched before the
\* cursor annotation (provideHoverOnTex receives it as an argument): locate,
\* preamble fetch, annotation, typeset; generateSVG has no annotation and
\* fetches the preamble only without an override; the reference flows go
\* locate, preamble fetch, typeset. Each step of a call starts after the one
\* before it has ended, whatever the other calls do.
C8_StepsInCodeOrder ==
    \A r \in Ids : IsPrefix(req[r].trace, StepsOf(req[r]))

C8_Witness ==
    \E r, o \in Ids :
        /\ req[r].kind = "tex"
        /\ req[r].trace = StepsOf(req[r])
        /\ req[o].kind = "ref"
        /\ req[o].trace = StepsOf(req[o])

----------------------------------------------------------------------------
(* C9 *)

\* generateSVG has been called for request r
GenerateSVGCalled(r) ==
    /\ req[r].kind = "svg"
    /\ req[r].pc \in {"scan", "queued", "running"} \/ req[r].outcome.kind \in {"svg", "error"}

\* C9: generateSVG with a macro override, the empty string included, does not
\* invoke the scanner, typesets the override followed by the processed math
\* source and returns the override as newCommands; without an override it
\* invokes the scanner once and uses and returns the scanned preamble.
C9_OverrideReplacesScan ==
    \A r \in Ids :
        GenerateSVGCalled(r) =>
            LET rq == req[r]
                used == IF rq.override # None THEN Val(rq.override)
                                              ELSE Val(rq.scanResult).value
            IN
            /\ rq.scanCalls = (IF rq.override # None THEN 0 ELSE 1)
            /\ IsSubmitted(r) => rq.typesetArg = used \o Processed(Val(rq.tex))
            /\ rq.outcome.kind = "svg" =>
                  /\ rq.outcome.newCommands = used
                  /\ rq.outcome.svgDataUrl.dataUrlOf.src = used \o Processed(Val(rq.tex))

C9_Witness ==
    \E r, o \in Ids :
        /\ req[r].kind = "svg" /\ req[r].override = Some(<<>>)
        /\ req[r].outcome.kind = "svg"
        /\ req[o].kind = "svg" /\ req[o].override = None
        /\ req[o].outcome.kind = "svg"

----------------------------------------------------------------------------
(* C10 *)

\* C10: the plain-reference hover of provideHoverOnRef holds the note
\* "numbered N at last compilation", N the reference's previous number,
\* exactly when the reference has a previous number and
\* hover.ref.number.enabled is set; without a previous number it holds none.
C10_NumberNoteIffPrevAndFlag ==
    \A r \in Ids :
        req[r].outcome.kind = "plain" =>
            LET c == req[r].outcome.contents
                prev == req[r].refData.prevIndex
            IN
            /\ (NoteParts(c) # {}) <=> (prev # None /\ req[r].numberEnabled)
            /\ \A i \in NoteParts(c) :
                  /\ i = 2
                  /\ c[i].text = <<"numbered ", Val(prev).refNumber, " at last compilation">>

C10_Witness ==
    \E r, o \in Ids :
        /\ req[r].outcome.kind = "plain"
        /\ NoteParts(req[r].outcome.contents) = {2}
        /\ req[o].outcome.kind = "plain"
        /\ req[o].refData.prevIndex = None
        /\ req[o].numberEnabled
        /\ NoteParts(req[o].outcome.contents) = {}

----------------------------------------------------------------------------
(* C11 *)

\* the inputs of the call of request rq: its flow, the math region, the macro
\* preamble and the scale
CallInputs(rq) == <<rq.kind, rq.tex, rq.newCommands, rq.scale>>

\* C11: this.color is written by the configuration-change handler (getColor)
\* only: a step that changes the colour sets the colour getColor computes and
\* advances no hover call, so every step of a hover call, whether the call
\* then succeeds, fails or is cancelled, leaves the colour as it was; and a
\* call that is submitted with the inputs and under the colour of a call
\* submitted before submits the same typeset request (source, options, pool).
C11_OnlyGetColorWritesColor ==
    /\ [][color' # color =>
            /\ color' = getColor(theme')
            /\ req' = req
            /\ queue' = queue]_vars
    /\ [][\A r, o \in Ids :
            ( /\ ~IsSubmitted(r) /\ req'[r].typesetOpts # None
              /\ IsSubmitted(o)
              /\ CallInputs(req[o]) = CallInputs(req'[r])
              /\ Val(req[o].typesetOpts).color = color )
            => /\ req'[r].typesetArg = req[o].typesetArg
               /\ req'[r].typesetOpts = req[o].typesetOpts
               /\ req'[r].pool = req[o].pool]_vars

C11_Witness ==
    \E r, o \in Ids :
        /\ r < o
        /\ req[r].kind = "tex" /\ req[o].kind = "tex"
        /\ req[r].outcome.kind = "error"
        /\ IsSubmitted(o)
        /\ color = "#ffffff"
        /\ req[o].typesetArg = req[r].typesetArg
        /\ req[o].typesetOpts = req[r].typesetOpts

----------------------------------------------------------------------------
(* C12 *)

HasStep(trace, a) == \E i \in 1..Len(trace) : trace[i] = a

\* C12: a provideHoverOnRef or renderSvgOnRef call for which a region was
\* found fetches the macro preamble, once, and is submitted at the step that
\* follows the end of the fetch: with the colour this.color holds at that
\* step, with the fetched preamble before the processed math source, and
\* without cursor annotation. The cursor annotator is invoked in the math
\* hover (provideHoverOnTex) only.
C12_RefFlowColorAfterFetch ==
    /\ [](\A r \in Ids :
            /\ (req[r].kind = "ref" /\ req[r].tex # None) => req[r].scanCalls = 1
            /\ (req[r].kind = "svgref" /\ req[r].tex # None /\ req[r].pc # "located")
                  => req[r].scanCalls = 1
            /\ req[r].kind \in RefKinds =>
                  /\ req[r].cursorColor = None
                  /\ ~HasStep(req[r].trace, "annotate")
                  /\ IsSubmitted(r) =>
                        req[r].typesetArg = req[r].newCommands \o Processed(Val(req[r].tex))
            /\ (req[r].cursorColor # None \/ HasStep(req[r].trace, "annotate"))
                  => req[r].kind = "tex")
    /\ [][\A r \in Ids :
            (req[r].kind \in RefKinds /\ ~IsSubmitted(r) /\ req'[r].typesetOpts # None) =>
                /\ req[r].pc = "scan"
                /\ req'[r].scanResult # None
                /\ ~Val(req'[r].scanResult).rejected
                /\ req'[r].newCommands = Val(req'[r].scanResult).value
                /\ req'[r].trace = <<"locate", "preamble.start", "preamble.end", "typeset.start">>
                /\ Val(req'[r].typesetOpts).color = color
                /\ color' = color]_vars

C12_Witness ==
    \E r, o \in Ids :
        /\ req[r].kind = "ref" /\ req[o].kind = "svgref"
        /\ IsSubmitted(r) /\ IsSubmitted(o)
        /\ Val(req[r].typesetOpts).color = "#000000"
        /\ Val(req[o].typesetOpts).color = "#ffffff"
        /\ req[r].cursorColor = None /\ req[o].cursorColor = None

----------------------------------------------------------------------------
(* C13 *)

\* C13: in a provideHoverOnTex call the colour of the cursor marker and the
\* colour of the typeset options are one value, the one this.color holds at
\* the step that submits the typeset: the source submitted carries the marker
\* in the colour of the options, whatever theme changes and other hover calls
\* come before, between or after.
C13_CursorColorIsOptionsColor ==
    /\ [](\A r \in Ids :
            (req[r].kind = "tex" /\ IsSubmitted(r)) =>
                LET c == Val(req[r].typesetOpts).color
                    tex == Val(req[r].tex)
                IN
                /\ req[r].cursorColor = Some(c)
                /\ req[r].typesetArg =
                      req[r].newCommands
                        \o stripTeX(mathjaxify(renderCursor(tex.texString, c), tex.envname)))
    /\ [][\A r \in Ids :
            (req[r].kind = "tex" /\ ~IsSubmitted(r) /\ req'[r].typesetOpts # None) =>
                /\ req'[r].cursorColor = Some(color)
                /\ Val(req'[r].typesetOpts).color = color
                /\ color' = color]_vars

C13_Witness ==
    \E r, o \in Ids :
        /\ req[r].kind = "tex" /\ req[o].kind = "tex"
        /\ req[r].pc \in {"queued", "running"} /\ req[o].pc \in {"queued", "running"}
        /\ req[r].cursorColor = Some("#000000")
        /\ Val(req[r].typesetOpts).color = "#000000"
        /\ req[o].cursorColor = Some("#ffffff")
        /\ Val(req[o].typesetOpts).color = "#ffffff"

----------------------------------------------------------------------------
(* C14 *)

\* C14: a provideHoverOnRef call made while hover.ref.enabled is off invokes
\* neither the locator nor the macro scanner nor the pool, and returns at once
\* the plain-reference hover of its reference entry, whether or not a math
\* region exists at the target and whatever the entry's previous number.
C14_DisabledGivesPlainHover ==
    \A r \in Ids :
        (req[r].kind = "ref" /\ ~req[r].refEnabled) =>
            /\ req[r].pc = "done"
            /\ req[r].trace = <<>>
            /\ req[r].tex = None
            /\ req[r].scanCalls = 0
            /\ req[r].engineCalls = 0
            /\ ~IsSubmitted(r)
            /\ ~InQueue(r)
            /\ req[r].outcome = PlainHover(req[r].refData, req[r].numberEnabled)

C14_Witness ==
    \E r, o \in Ids :
        /\ req[r].kind = "ref" /\ ~req[r].refEnabled
        /\ req[r].region # None
        /\ req[r].outcome.kind = "plain"
        /\ req[o].kind = "ref" /\ ~req[o].refEnabled
        /\ req[o].region = None
        /\ req[o].refData.prevIndex = None
        /\ req[o].outcome.kind = "plain"

====
